---- MODULE Spec2Model ----
(***************************************************************************)
(* Model of the diagnostics engine NetworkEngine (src/unnamed/part_002):   *)
(* the dispatcher runTool, the resolver / fetch based probes and the four  *)
(* socket based probes with their event handlers.                          *)
(*                                                                         *)
(* Text (targets, hosts, domains, urls) is a sequence of tokens, one token *)
(* per character; a string literal of the source that is never taken apart *)
(* is one token.  Messages are plain strings.  A JavaScript number is a    *)
(* sequence of length one, NaN / undefined is the empty sequence.          *)
(***************************************************************************)
EXTENDS Integers, Sequences, FiniteSets, TLC

VARIABLES
    pc,           \* position of runTool: "idle", "await", "done"; "replied"
                  \* once the route has answered
    request,      \* the HTTP request being served, if the call came by route
    http,         \* the HTTP response of the route
    apiType,      \* first argument of the running call
    query,        \* second argument of the running call
    options,      \* third argument of the running call
    probe,        \* the probe the dispatcher selected
    ret,          \* the promise runTool returned
    prom,         \* the promise a socket probe built with new Promise
    resolveCalls, \* the calls of that promise's resolve, in order
    sock,         \* the socket of the running probe
    timer,        \* whether the socket's idle timer is armed
    closeCount,   \* how often the socket's handle was closed
    closePending, \* a 'close' event is due
    host,         \* host argument of the socket probe
    port,         \* port argument of the socket probe
    banner,       \* grabBanner's accumulator
    due,          \* the socket has been idle for the whole timeout period
    heard,        \* history: the chunks this invocation's socket delivered
    parked,       \* the locals of a second invocation that is not running now
    self,         \* which of the two invocations the other variables hold
    data,         \* simpleWhois's accumulator
    written,      \* payloads written to the socket
    io,           \* resolver, socket and fetch calls issued, in order
    faults,       \* faults raised inside the probe, in order
    lookups,      \* checkBlacklist: state of each zone lookup
    entries,      \* checkBlacklist: entry each settled mapper returned
    url,          \* normalised url of the HTTP probes
    response,     \* the response the last fetch resolved with
    tls,          \* checkSSL: the certificate the peer presented, and when
    stage         \* traceRedirects: which fetch is in flight

vars == <<pc, request, http, parked, self, heard, due, apiType, query, options, probe, ret, prom, resolveCalls, sock,
          timer, closeCount, closePending, host, port, banner, data, written,
          io, faults, lookups, entries, url, response, tls, stage>>

-----------------------------------------------------------------------------
(* Bounds of the model *)

MaxData == 3

(* data.substring(0, 1500) *)
RawLimit == 1500

-----------------------------------------------------------------------------
(* Values *)

Absent == "<absent>"
NoData == [kind |-> "absent"]
NoNum == <<>>
Now == "iso-8601"

Min(a, b) == IF a < b THEN a ELSE b

RECURSIVE Reverse(_)
Reverse(s) == IF s = <<>> THEN <<>> ELSE Append(Reverse(Tail(s)), Head(s))

(* String.prototype.includes for a one-character needle *)
Includes(s, c) == \E i \in 1..Len(s) : s[i] = c

(* String.prototype.startsWith *)
StartsWith(s, p) == Len(s) >= Len(p) /\ SubSeq(s, 1, Len(p)) = p

(* String.prototype.split for a one-character separator *)
RECURSIVE SplitFrom(_, _, _)
SplitFrom(s, c, cur) ==
    IF s = <<>> THEN <<cur>>
    ELSE IF Head(s) = c THEN <<cur>> \o SplitFrom(Tail(s), c, <<>>)
    ELSE SplitFrom(Tail(s), c, Append(cur, Head(s)))

Split(s, c) == SplitFrom(s, c, <<>>)

(* Array.prototype.join for a one-character separator *)
RECURSIVE Join(_, _)
Join(parts, c) ==
    IF parts = <<>> THEN <<>>
    ELSE IF Len(parts) = 1 THEN Head(parts)
    ELSE Head(parts) \o <<c>> \o Join(Tail(parts), c)

Digits == <<"0", "1", "2", "3", "4", "5", "6", "7", "8", "9">>
IsDigit(c) == \E i \in 1..10 : Digits[i] = c
DigitVal(c) == (CHOOSE i \in 1..10 : Digits[i] = c) - 1
IsSpace(c) == c = " "

RECURSIVE SkipSpace(_)
SkipSpace(s) == IF s # <<>> /\ IsSpace(Head(s)) THEN SkipSpace(Tail(s)) ELSE s

RECURSIVE DigitRun(_, _, _)
DigitRun(s, acc, seen) ==
    IF s # <<>> /\ IsDigit(Head(s))
    THEN DigitRun(Tail(s), 10 * acc + DigitVal(Head(s)), TRUE)
    ELSE IF seen THEN <<acc>> ELSE NoNum

(* parseInt of a text without sign or radix prefix; undefined gives NaN *)
parseInt(s) == DigitRun(SkipSpace(s), 0, FALSE)

(* String.prototype.trim *)
Trim(s) == Reverse(SkipSpace(Reverse(SkipSpace(s))))

(* a || b on numbers *)
NumOr(a, b) == IF a # NoNum /\ a # <<0>> THEN a ELSE b

-----------------------------------------------------------------------------
(* Faults: an Error object with its message, or a thrown / passed string *)

ErrorObj(m) == [isError |-> TRUE, message |-> m]
StringVal(m) == [isError |-> FALSE, text |-> m]

ResolverFaults ==
    {ErrorObj("queryA ENOTFOUND"), ErrorObj("queryA ESERVFAIL"),
     ErrorObj("queryA ETIMEOUT")}
SocketFaults == {ErrorObj("connect ECONNREFUSED"), ErrorObj("read ECONNRESET")}
TlsFaults ==
    {ErrorObj("certificate has expired"), ErrorObj("self-signed certificate")}
FetchFaults == {ErrorObj("fetch failed")}

-----------------------------------------------------------------------------
(* Result envelope *)

success(d, g) ==
    [status |-> "success", timestamp |-> Now, data |-> d,
     message |-> Absent, grade |-> g]

(* The error envelope built without its message *)
errorWithoutMessage(e) ==
    [status |-> "error", timestamp |-> Now, data |-> NoData,
     message |-> Absent, grade |-> Absent]

error(e) ==
    [status |-> "error", timestamp |-> Now, data |-> NoData,
     message |-> (IF e.isError THEN e.message ELSE e.text), grade |-> Absent]

(* Template literals that build a message *)
MissingToolMessageGeneric(k) == "Tool implementation is missing."
MissingToolMessage(k) == "Tool implementation for " \o k \o " is missing."
ClosedMessage(e) == "Closed or Blocked: " \o e.message

(* Outcome of a function body: a value returned, a fault thrown, or a wait *)
Return(v) == [done |-> "return", value |-> v]
Throw(e) == [done |-> "throw", fault |-> e]
Await == [done |-> "await"]

(* Promises *)
Pending == [state |-> "pending"]
Fulfilled(v) == [state |-> "fulfilled", value |-> v]
Rejected(e) == [state |-> "rejected", fault |-> e]

-----------------------------------------------------------------------------
(* Inputs *)

ApiTypes ==
    {"dns", "dns-txt", "dns-ptr", "whois", "whois-asn", "ping", "tcp",
     "banner", "ssl", "tls-check", "headers", "headers-grade",
     "trace-redirect", "blacklist", "my-ip", "mac-oui", "punycode",
     "crypto-hash", "crypto-hmac", "crypto-uuid", "smtp-test", "health"}

(* Kinds a caller may pass: the declared ones and one outside the type *)
Kinds == ApiTypes \cup {"bogus"}

NoInputKinds == {"my-ip", "crypto-uuid"}

Targets ==
    { <<>>,
      <<"a">>,
      <<"a", ":", "8", "0">>,
      <<"a", ":">>,
      <<"h", "t", "t", "p", "b">>,
      <<"h", "t", "t", "p", ":", "/", "/", "a">>,
      <<"a", ":", "8", "x">>,
      <<":", ":", "1">>,
      <<"1", ".", "2">> }

OptionSets ==
    { [recordType |-> <<>>, prefix |-> <<>>, port |-> NoNum],
      [recordType |-> <<"m", "x">>, prefix |-> <<"_", "d">>, port |-> NoNum],
      [recordType |-> <<"P", "T", "R">>, prefix |-> <<>>, port |-> <<443>>],
      [recordType |-> <<>>, prefix |-> <<>>, port |-> <<0>>] }

(* Record types a caller of the dns kind may pass, in either case *)
RecordTypes ==
    { <<"a">>, <<"A">>, <<"a", "a", "a", "a">>, <<"A", "A", "A", "A">>,
      <<"M", "x">>, <<"t", "x", "t">>, <<"T", "X", "T">>, <<"n", "s">>,
      <<"N", "S">>, <<"s", "o", "a">>, <<"S", "O", "A">>,
      <<"c", "n", "a", "m", "e">>, <<"C", "N", "A", "M", "E">>,
      <<"s", "r", "v">>, <<"S", "R", "V">>, <<"c", "a", "a">>,
      <<"C", "A", "A">>, <<"p", "t", "r">>, <<"x", "x">>, <<"M", "X", "X">> }

(* The options tried with a kind: the dns kind is tried with every type *)
OptionsFor(k) ==
    IF k = "dns"
    THEN OptionSets \cup
         {[recordType |-> t, prefix |-> <<>>, port |-> NoNum] : t \in RecordTypes}
    ELSE OptionSets

Chunks == { <<" ">>, <<"S", " ">> }

(* What a WHOIS server sends in one 'data' event: a line, or a long part  *)
Long == [i \in 1..(RawLimit - 1) |-> "x"]
Replies == { <<"S", " ">>, Long }

(* The chunks of a history put one after the other *)
RECURSIVE Concat(_)
Concat(chunks) ==
    IF chunks = <<>> THEN <<>> ELSE Head(chunks) \o Concat(Tail(chunks))

LowerLetters == <<"a", "c", "e", "m", "n", "o", "p", "r", "s", "t", "v", "x">>
UpperLetters == <<"A", "C", "E", "M", "N", "O", "P", "R", "S", "T", "V", "X">>

UpperChar(c) ==
    IF \E i \in 1..Len(LowerLetters) : LowerLetters[i] = c
    THEN UpperLetters[CHOOSE i \in 1..Len(LowerLetters) : LowerLetters[i] = c]
    ELSE c

(* String.prototype.toUpperCase *)
toUpperCase(s) == [i \in 1..Len(s) |-> UpperChar(s[i])]

-----------------------------------------------------------------------------
(* Synchronous part of each probe: what it has set up when it first waits *)

Start0 ==
    [probe |-> "none", io |-> <<>>, sock |-> "none", timer |-> FALSE,
     host |-> <<>>, port |-> NoNum, url |-> <<>>, written |-> <<>>,
     out |-> Await]

(* A mapping that treats the type as written *)
ResolverCallAsWritten(type) ==
    CASE type = <<"M", "X">> -> "resolveMx"
      [] type = <<"T", "X", "T">> -> "resolveTxt"
      [] type = <<"N", "S">> -> "resolveNs"
      [] type = <<"S", "O", "A">> -> "resolveSoa"
      [] type = <<"A", "A", "A", "A">> -> "resolve6"
      [] type = <<"C", "N", "A", "M", "E">> -> "resolveCname"
      [] type = <<"S", "R", "V">> -> "resolveSrv"
      [] type = <<"C", "A", "A">> -> "resolveCaa"
      [] type = <<"P", "T", "R">> -> "reverse"
      [] OTHER -> "resolve4"

ResolverCall(type) ==
    LET t == toUpperCase(type) IN
    CASE t = <<"M", "X">> -> "resolveMx"
      [] t = <<"T", "X", "T">> -> "resolveTxt"
      [] t = <<"N", "S">> -> "resolveNs"
      [] t = <<"S", "O", "A">> -> "resolveSoa"
      [] t = <<"A", "A", "A", "A">> -> "resolve6"
      [] t = <<"C", "N", "A", "M", "E">> -> "resolveCname"
      [] t = <<"S", "R", "V">> -> "resolveSrv"
      [] t = <<"C", "A", "A">> -> "resolveCaa"
      [] t = <<"P", "T", "R">> -> "reverse"
      [] OTHER -> "resolve4"

resolveDNS(domain, type) ==
    [Start0 EXCEPT !.probe = "resolveDNS",
                   !.io = <<[op |-> ResolverCall(type), arg |-> domain]>>]

reverseDNS(q) ==
    [Start0 EXCEPT !.probe = "reverse",
                   !.io = <<[op |-> "reverse", arg |-> q]>>]

(* net.Socket.connect validates the port before it does anything *)
ValidPort(p) == p # NoNum /\ p[1] >= 0 /\ p[1] <= 65535

BadPort == ErrorObj("ERR_SOCKET_BAD_PORT")

(* new net.Socket(); setTimeout(ms); connect(port, host, cb) *)
OpenSocket(name, h, p) ==
    IF ValidPort(p)
    THEN [Start0 EXCEPT !.probe = name, !.sock = "connecting", !.timer = TRUE,
                        !.host = h, !.port = p,
                        !.io = <<[op |-> "connect", arg |-> h, port |-> p]>>]
    ELSE [Start0 EXCEPT !.probe = name, !.sock = "unconnected", !.timer = TRUE,
                        !.host = h, !.port = p, !.out = Throw(BadPort)]

checkPort(h, p) == OpenSocket("checkPort", h, p)

grabBanner(h, p) == OpenSocket("grabBanner", h, p)

simpleWhois(domain) == OpenSocket("simpleWhois", <<"whois.iana.org">>, <<43>>)

checkSSL(h) ==
    [Start0 EXCEPT !.probe = "checkSSL", !.sock = "connecting",
                   !.host = h, !.port = <<443>>,
                   !.io = <<[op |-> "connect", arg |-> h, port |-> <<443>>]>>]

NormalizeUrl(u) ==
    IF ~StartsWith(u, <<"h", "t", "t", "p">>) THEN <<"https://">> \o u ELSE u

Fetch(u) == [op |-> "fetch", arg |-> u]

HttpProbe(name, u) ==
    [Start0 EXCEPT !.probe = name, !.url = NormalizeUrl(u),
                   !.io = <<Fetch(NormalizeUrl(u))>>]

checkHeaders(u) == HttpProbe("checkHeaders", u)
gradeSecurityHeaders(u) == HttpProbe("gradeSecurityHeaders", u)
traceRedirects(u) == HttpProbe("traceRedirects", u)

rbls == <<"zen.spamhaus.org", "b.barracudacentral.org">>

ReverseIp(ip) == Join(Reverse(Split(ip, ".")), ".")

checkBlacklist(ip) ==
    [Start0 EXCEPT !.probe = "checkBlacklist",
                   !.io = [i \in 1..Len(rbls) |->
                             [op |-> "resolve4",
                              arg |-> ReverseIp(ip) \o <<".">> \o <<rbls[i]>>]]]

Immediate(d) == [Start0 EXCEPT !.out = Return(success(d, Absent))]

(* "host:port" parsing of the ping / tcp / banner cases *)
PortOf(q, o, dflt) ==
    NumOr(o.port, IF Includes(q, ":") THEN parseInt(Split(q, ":")[2]) ELSE <<dflt>>)

HostOf(q) == IF Includes(q, ":") THEN Split(q, ":")[1] ELSE q

(* A default case that falls back to an A lookup instead of throwing *)
DefaultCaseLookup(k, q) == resolveDNS(q, <<"A">>)

(* The default case of the switch *)
DefaultCase(k, q) ==
    [Start0 EXCEPT !.out = Throw(ErrorObj(MissingToolMessage(k)))]

(* A target that leaves the prefix out *)
TxtTargetNoPrefix(q, o) == q

(* options.prefix ? `${options.prefix}.${query}` : query *)
TxtTarget(q, o) == IF o.prefix # <<>> THEN o.prefix \o <<".">> \o q ELSE q

(* The switch of runTool *)
Dispatch(k, q, o) ==
    CASE k = "dns" ->
           resolveDNS(q, IF o.recordType # <<>> THEN o.recordType ELSE <<"A">>)
      [] k = "dns-txt" ->
           resolveDNS(TxtTarget(q, o), <<"T", "X", "T">>)
      [] k = "dns-ptr" -> reverseDNS(q)
      [] k \in {"ping", "tcp"} -> checkPort(HostOf(q), PortOf(q, o, 80))
      [] k = "banner" -> grabBanner(HostOf(q), PortOf(q, o, 22))
      [] k \in {"ssl", "tls-check"} -> checkSSL(q)
      [] k = "my-ip" -> Immediate([message |-> "Resolved at Edge via Headers"])
      [] k = "blacklist" -> checkBlacklist(q)
      [] k = "headers" -> checkHeaders(q)
      [] k = "headers-grade" -> gradeSecurityHeaders(q)
      [] k = "trace-redirect" -> traceRedirects(q)
      [] k = "punycode" -> Immediate([kind |-> "punycode", of |-> q])
      [] k = "crypto-hash" -> Immediate([kind |-> "hash", of |-> q])
      [] k = "crypto-uuid" -> Immediate([kind |-> "uuid"])
      [] k = "whois" -> simpleWhois(q)
      [] OTHER -> DefaultCase(k, q)

(* The body without the input validation *)
TryBodyNoValidation(k, q, o) == Dispatch(k, q, o)

(* Input validation, then the switch *)
TryBody(k, q, o) ==
    IF q = <<>> /\ k \notin NoInputKinds
    THEN [Start0 EXCEPT !.out = Throw(ErrorObj("Input query is required"))]
    ELSE Dispatch(k, q, o)

(* Recover without the try / catch: the fault escapes *)
RecoverNoCatch(out) == out

(* try { ... } catch (e) { return this.error(e) } around every await *)
Recover(out) ==
    IF out.done = "throw" THEN Return(error(out.fault)) ELSE out

(* The promise of the async function runTool once its body has come to `out` *)
Settle(out) ==
    CASE out.done = "return" -> Fulfilled(out.value)
      [] out.done = "throw" -> Rejected(out.fault)
      [] OTHER -> Pending

PcOf(out) == IF out.done = "await" THEN "await" ELSE "done"

(* resolve as a plain assignment: the last call wins *)
resolveLastWins(p, v) == Fulfilled(v)

(* new Promise: resolve settles it once, later calls do nothing *)
resolve(p, v) == IF p.state = "pending" THEN Fulfilled(v) ELSE p

-----------------------------------------------------------------------------
(* gradeSecurityHeaders: the forEach over the required headers *)

required ==
    <<"strict-transport-security", "content-security-policy",
      "x-frame-options", "x-content-type-options">>

HeaderNames == {required[i] : i \in 1..Len(required)} \cup {"server"}

RECURSIVE GradeLoop(_, _, _, _)
GradeLoop(hs, i, score, details) ==
    IF i > Len(required) THEN [score |-> score, details |-> details]
    ELSE IF required[i] \in hs
    THEN GradeLoop(hs, i + 1, score,
                   Append(details, [header |-> required[i], status |-> "PASS"]))
    ELSE GradeLoop(hs, i + 1, score - 20,
                   Append(details, [header |-> required[i], status |-> "FAIL"]))

(* The loop started from a score already reduced *)
GradedLow(hs) == GradeLoop(hs, 1, 80, <<>>)

Graded(hs) == GradeLoop(hs, 1, 100, <<>>)

(* The grade with the A threshold taken strictly *)
LetterStrict(score) == IF score > 80 THEN "A" ELSE IF score >= 60 THEN "B" ELSE "F"

Letter(score) == IF score >= 80 THEN "A" ELSE IF score >= 60 THEN "B" ELSE "F"

GradeResult(hs) ==
    success([details |-> Graded(hs).details], Letter(Graded(hs).score))

NoResponse == [none |-> TRUE]

Responses(u) ==
    [status : {200, 404}, headers : SUBSET HeaderNames,
     url : {u, u \o <<"/">>}]

-----------------------------------------------------------------------------
(* checkBlacklist: Promise.all keeps each mapper's entry at its zone's index *)

NoEntry == [rbl |-> Absent, status |-> Absent]

(* Entries kept in the order the lookups settle *)
CollectInArrivalOrder(es, i, e) ==
    LET free == CHOOSE j \in 1..Len(es) :
                    /\ es[j] = NoEntry
                    /\ \A l \in 1..(j - 1) : es[l] # NoEntry
    IN  [es EXCEPT ![free] = e]

Collect(es, i, e) == [es EXCEPT ![i] = e]

(* An entry that reports the zone as listed whatever the lookup did *)
ZoneEntryListed(i, listed) == [rbl |-> rbls[i], status |-> "LISTED"]

ZoneEntry(i, listed) ==
    [rbl |-> rbls[i], status |-> IF listed THEN "LISTED" ELSE "CLEAN"]

-----------------------------------------------------------------------------
(* Sockets *)

Certs ==
    { [trusted |-> TRUE, valid_to |-> 259200000],
      [trusted |-> TRUE, valid_to |-> 86400500],
      [trusted |-> FALSE, valid_to |-> 0] }

Clock == {1000, 90000000}

NoHandshake == [none |-> TRUE]

(* tls.connect is called without rejectUnauthorized, so the default (true)  *)
(* holds: the handshake completes only for a chain that verifies, and a     *)
(* certificate that has expired does not verify                             *)
Authorized(cert, now) == cert.trusted /\ now <= cert.valid_to

VerifyError(cert, now) ==
    IF now > cert.valid_to THEN ErrorObj("certificate has expired")
    ELSE ErrorObj("self-signed certificate")

Sock == [sock |-> sock, timer |-> timer, closeCount |-> closeCount,
         closePending |-> closePending, due |-> due]

(* socket.destroy(): closes the handle, clears the timer, schedules 'close' *)
destroy(s) ==
    IF s.sock = "closed" THEN s
    ELSE [sock |-> "closed", timer |-> FALSE,
          closeCount |-> s.closeCount + 1, closePending |-> TRUE,
          due |-> FALSE]

(* Activity on the socket starts the idle period of setTimeout again *)
refresh(s) == [s EXCEPT !.due = FALSE]

(* socket.end(): half-close, the peer's FIN closes the other half later *)
end(s) == IF s.sock = "closed" THEN s ELSE [s EXCEPT !.sock = "halfclosed"]

SetSock(s) ==
    /\ sock' = s.sock
    /\ timer' = s.timer
    /\ due' = s.due
    /\ closeCount' = s.closeCount
    /\ closePending' = s.closePending

(* A handler calls resolve(v): the probe's promise and, through the await of *)
(* runTool, the promise handed to the caller                                 *)
Resolve(ev, v) ==
    /\ prom' = resolve(prom, v)
    /\ resolveCalls' = Append(resolveCalls,
                              [event |-> ev, value |-> v, at |-> sock])
    /\ ret' = Settle(Return(resolve(prom, v).value))
    /\ pc' = IF pc = "await" THEN "done" ELSE pc

NoResolve == UNCHANGED <<prom, resolveCalls, ret, pc>>

callVars == <<apiType, query, options, probe, host, port, url>>
routeVars == <<request, http>>
pairVars == <<parked, self>>
engineVars == <<heard, due, pairVars, apiType, query, options, probe, ret, prom, resolveCalls, sock,
                timer, closeCount, closePending, host, port, banner, data,
                written, io, faults, lookups, entries, url, response, tls,
                stage>>
httpVars == <<response, stage>>
rblVars == <<lookups, entries>>
sockVars == <<sock, timer, closeCount, closePending, due>>
promVars == <<prom, resolveCalls>>
bufVars == <<banner, data, written, heard>>

-----------------------------------------------------------------------------
(* The tools route *)

NoCall == [none |-> TRUE]
NoRequest == [none |-> TRUE]
NoReply == [none |-> TRUE]

(* Tool configurations the route may find in its catalogue *)
Tools ==
    { [slug |-> "dns-lookup", apiType |-> "dns", inputType |-> "text",
       recordType |-> <<"m", "x">>, prefix |-> <<>>],
      [slug |-> "dmarc", apiType |-> "dns-txt", inputType |-> "text",
       recordType |-> <<>>, prefix |-> <<"_", "d">>],
      [slug |-> "port-check", apiType |-> "tcp", inputType |-> "host-port",
       recordType |-> <<>>, prefix |-> <<>>],
      [slug |-> "ssl-check", apiType |-> "ssl", inputType |-> "text",
       recordType |-> <<>>, prefix |-> <<>>],
      [slug |-> "headers", apiType |-> "headers", inputType |-> "text",
       recordType |-> <<>>, prefix |-> <<>>],
      [slug |-> "uuid", apiType |-> "crypto-uuid", inputType |-> "none",
       recordType |-> <<>>, prefix |-> <<>>],
      [slug |-> "hash", apiType |-> "crypto-hash", inputType |-> "none",
       recordType |-> <<>>, prefix |-> <<>>],
      [slug |-> "smtp", apiType |-> "smtp-test", inputType |-> "text",
       recordType |-> <<>>, prefix |-> <<>>] }

(* Slugs a request may carry: none, the special one, known and unknown ones *)
Slugs == {"", "what-is-my-ip", "no-such-tool"} \cup {t.slug : t \in Tools}

HasTool(slug) == \E t \in Tools : t.slug = slug
FindTool(slug) == CHOOSE t \in Tools : t.slug = slug

(* A reply the route gives without calling the engine *)
Reply(code, body) ==
    /\ http' = [code |-> code, body |-> body]
    /\ pc' = "replied"
    /\ UNCHANGED engineVars

(* A status that follows the Result instead of the default 200 *)
ReplyCodeByStatus(p) ==
    IF p.state = "fulfilled" /\ p.value.status = "success" THEN 200 ELSE 500

(* NextResponse.json(result) answers 200; a rejected await answers 500 *)
ReplyCode(p) == IF p.state = "fulfilled" THEN 200 ELSE 500

ConnProbes == {"checkPort", "grabBanner", "checkSSL", "simpleWhois"}
HttpProbes == {"checkHeaders", "gradeSecurityHeaders", "traceRedirects"}

-----------------------------------------------------------------------------
(* Initial state and the call *)

Init ==
    /\ pc = "idle"
    /\ request = NoRequest
    /\ http = NoReply
    /\ apiType = "my-ip"
    /\ query = <<>>
    /\ options = [recordType |-> <<>>, prefix |-> <<>>, port |-> NoNum]
    /\ probe = "none"
    /\ ret = Pending
    /\ prom = Pending
    /\ resolveCalls = <<>>
    /\ sock = "none"
    /\ timer = FALSE
    /\ due = FALSE
    /\ closeCount = 0
    /\ closePending = FALSE
    /\ host = <<>>
    /\ port = NoNum
    /\ banner = <<>>
    /\ heard = <<>>
    /\ parked = NoCall
    /\ self = 1
    /\ data = <<>>
    /\ written = <<>>
    /\ io = <<>>
    /\ faults = <<>>
    /\ lookups = <<>>
    /\ entries = <<>>
    /\ url = <<>>
    /\ response = NoResponse
    /\ tls = NoHandshake
    /\ stage = 0

(* runTool(apiType, query, options) up to its first wait *)
runTool(k, q, o) ==
    LET st == TryBody(k, q, o)
        out == Recover(st.out)
    IN  /\ apiType' = k
        /\ query' = q
        /\ options' = o
        /\ probe' = st.probe
        /\ io' = st.io
        /\ sock' = st.sock
        /\ timer' = st.timer
        /\ due' = FALSE
        /\ host' = st.host
        /\ port' = st.port
        /\ url' = st.url
        /\ faults' = IF st.out.done = "throw"
                     THEN <<[src |-> "throw", fault |-> st.out.fault]>>
                     ELSE <<>>
        /\ ret' = Settle(out)
        /\ pc' = PcOf(out)
        /\ prom' = Pending
        /\ resolveCalls' = <<>>
        /\ closeCount' = 0
        /\ closePending' = FALSE
        /\ banner' = <<>>
        /\ heard' = <<>>
        /\ data' = <<>>
        /\ written' = <<>>
        /\ lookups' = IF st.probe = "checkBlacklist"
                      THEN [i \in 1..Len(rbls) |-> "pending"] ELSE <<>>
        /\ entries' = IF st.probe = "checkBlacklist"
                      THEN [i \in 1..Len(rbls) |-> NoEntry] ELSE <<>>
        /\ response' = NoResponse
        /\ tls' = NoHandshake
        /\ stage' = IF st.probe = "traceRedirects" THEN 1 ELSE 0

Call ==
    /\ pc = "idle"
    /\ \E k \in Kinds, q \in Targets : \E o \in OptionsFor(k) : runTool(k, q, o)
    /\ UNCHANGED <<routeVars, pairVars>>

(* GET of the tools route: its own checks, then the engine *)
GET ==
    /\ pc = "idle"
    /\ \E slug \in Slugs, q \in Targets :
         /\ request' = [slug |-> slug, q |-> q]
         /\ CASE slug = "what-is-my-ip" ->
                   Reply(200, [status |-> "success", timestamp |-> Now,
                               data |-> [ip |-> "127.0.0.1"]])
              [] slug = "" ->
                   Reply(400, [status |-> "error", message |-> "Slug required"])
              [] ~HasTool(slug) ->
                   Reply(404, [status |-> "error", message |-> "Tool not found"])
              [] HasTool(slug) /\ q = <<>> /\ FindTool(slug).inputType # "none" ->
                   Reply(400, [status |-> "error", message |-> "Query required"])
              [] OTHER ->
                   /\ runTool(FindTool(slug).apiType, q,
                              [recordType |-> FindTool(slug).recordType,
                               prefix |-> FindTool(slug).prefix,
                               port |-> NoNum])
                   /\ http' = NoReply
                   /\ UNCHANGED pairVars

(* return NextResponse.json(result) once the awaited runTool has settled *)
Respond ==
    /\ pc = "done"
    /\ request # NoRequest
    /\ http' = [code |-> ReplyCode(ret),
                body |-> IF ret.state = "fulfilled" THEN ret.value
                         ELSE [status |-> "error", message |-> "Internal"]]
    /\ pc' = "replied"
    /\ UNCHANGED <<request, engineVars>>

(* The caller has its Result; the engine is a class of static methods and *)
(* keeps nothing of the call                                              *)
Finish ==
    /\ \/ pc = "replied"
       \/ pc = "done" /\ request = NoRequest
    /\ pc' = "idle"
    /\ request' = NoRequest
    /\ http' = NoReply
    /\ apiType' = "my-ip"
    /\ query' = <<>>
    /\ options' = [recordType |-> <<>>, prefix |-> <<>>, port |-> NoNum]
    /\ probe' = "none"
    /\ ret' = Pending
    /\ prom' = Pending
    /\ resolveCalls' = <<>>
    /\ sock' = "none"
    /\ timer' = FALSE
    /\ due' = FALSE
    /\ closeCount' = 0
    /\ closePending' = FALSE
    /\ host' = <<>>
    /\ port' = NoNum
    /\ banner' = <<>>
    /\ heard' = <<>>
    /\ UNCHANGED pairVars
    /\ data' = <<>>
    /\ written' = <<>>
    /\ io' = <<>>
    /\ faults' = <<>>
    /\ lookups' = <<>>
    /\ entries' = <<>>
    /\ url' = <<>>
    /\ response' = NoResponse
    /\ tls' = NoHandshake
    /\ stage' = 0

-----------------------------------------------------------------------------
(* Resolver and fetch completions *)

(* The awaited promise settled with `out`: runTool continues to its end *)
Continue(out) ==
    /\ ret' = Settle(Recover(out))
    /\ pc' = "done"

Raise(src, e) == faults' = Append(faults, [src |-> src, fault |-> e])

ResolverResolves ==
    /\ pc = "await"
    /\ probe \in {"resolveDNS", "reverse"}
    /\ Continue(Return(success([kind |-> "records", of |-> io[1].op], Absent)))
    /\ UNCHANGED <<callVars, routeVars, pairVars, tls, httpVars, rblVars, sockVars, promVars, bufVars,
                   io, faults>>

ResolverRejects ==
    /\ pc = "await"
    /\ probe \in {"resolveDNS", "reverse"}
    /\ \E e \in ResolverFaults :
         /\ Continue(Throw(e))
         /\ Raise("resolver", e)
    /\ UNCHANGED <<callVars, routeVars, pairVars, tls, httpVars, rblVars, sockVars, promVars, bufVars, io>>

(* What each HTTP probe does with the response of its fetch *)
OnResponse(name, st, u, res) ==
    CASE name = "checkHeaders" ->
           Return(success([status |-> res.status, headers |-> res.headers],
                          Absent))
      [] name = "gradeSecurityHeaders" -> Return(GradeResult(res.headers))
      [] name = "traceRedirects" /\ st = 1 -> Await
      [] OTHER ->
           Return(success([hops |-> IF res.url # u THEN <<u, res.url>>
                                    ELSE <<u>>,
                           final |-> res.url, status |-> res.status],
                          Absent))

(* What each HTTP probe does when its fetch rejects: two of them catch *)
OnFetchFault(name, e) ==
    IF name = "checkHeaders" THEN Throw(e) ELSE Return(error(e))

FetchResolves ==
    /\ pc = "await"
    /\ probe \in HttpProbes
    /\ \E res \in Responses(url) :
         LET out == OnResponse(probe, stage, url, res) IN
         /\ response' = res
         /\ IF out.done = "await"
            THEN /\ stage' = 2
                 /\ io' = Append(io, Fetch(url))
                 /\ UNCHANGED <<ret, pc>>
            ELSE /\ Continue(out)
                 /\ UNCHANGED <<stage, io>>
    /\ UNCHANGED <<callVars, routeVars, pairVars, tls, rblVars, sockVars, promVars, bufVars, faults>>

FetchRejects ==
    /\ pc = "await"
    /\ probe \in HttpProbes
    /\ \E e \in FetchFaults :
         /\ Continue(OnFetchFault(probe, e))
         /\ Raise("fetch", e)
    /\ UNCHANGED <<callVars, routeVars, pairVars, tls, httpVars, rblVars, sockVars, promVars, bufVars, io>>

(* One zone lookup of checkBlacklist settles; the last one ends the join *)
LookupSettles(i, listed) ==
    LET ls == [lookups EXCEPT ![i] = IF listed THEN "resolved" ELSE "failed"]
        es == Collect(entries, i, ZoneEntry(i, listed))
    IN  /\ lookups' = ls
        /\ entries' = es
        /\ IF \A j \in 1..Len(ls) : ls[j] # "pending"
           THEN Continue(Return(success([kind |-> "list", items |-> es],
                                        Absent)))
           ELSE UNCHANGED <<ret, pc>>

LookupResolves ==
    /\ pc = "await"
    /\ probe = "checkBlacklist"
    /\ \E i \in 1..Len(lookups) :
         /\ lookups[i] = "pending"
         /\ LookupSettles(i, TRUE)
    /\ UNCHANGED <<callVars, routeVars, pairVars, tls, httpVars, sockVars, promVars, bufVars, io, faults>>

LookupRejects ==
    /\ pc = "await"
    /\ probe = "checkBlacklist"
    /\ \E i \in 1..Len(lookups), e \in ResolverFaults :
         /\ lookups[i] = "pending"
         /\ LookupSettles(i, FALSE)
         /\ Raise("resolver", e)
    /\ UNCHANGED <<callVars, routeVars, pairVars, tls, httpVars, sockVars, promVars, bufVars, io>>

-----------------------------------------------------------------------------
(* Socket events and the handlers the probes registered for them *)

DaysRemaining(cert, now) == (cert.valid_to - now) \div 86400000

SslResult(cert, now) ==
    [status |-> "success", timestamp |-> Now,
     data |-> [valid |-> Authorized(cert, now), valid_to |-> cert.valid_to,
               days_remaining |-> DaysRemaining(cert, now)],
     message |-> Absent, grade |-> Absent]

(* 'connect' (for checkSSL: the handshake completed and the chain verified) *)
SockConnect ==
    /\ sock = "connecting"
    /\ CASE probe = "checkPort" ->
              /\ SetSock(destroy(Sock))
              /\ Resolve("connect",
                         success([status |-> "Open", port |-> port,
                                  host |-> host], Absent))
              /\ UNCHANGED <<written, tls>>
         [] probe = "grabBanner" ->
              /\ SetSock(refresh([Sock EXCEPT !.sock = "open"]))
              /\ written' = IF port \in {<<80>>, <<443>>}
                            THEN Append(written, <<"HEAD / HTTP/1.0\r\n\r\n">>)
                            ELSE written
              /\ NoResolve
              /\ UNCHANGED tls
         [] probe = "checkSSL" ->
              /\ \E cert \in Certs, now \in Clock :
                   /\ tls' = [cert |-> cert, now |-> now]
                   /\ IF Authorized(cert, now)
                      THEN /\ Resolve("connect", SslResult(cert, now))
                           /\ SetSock(end(refresh([Sock EXCEPT !.sock = "open"])))
                      ELSE /\ Resolve("error", error(VerifyError(cert, now)))
                           /\ SetSock(destroy(Sock))
              /\ UNCHANGED written
         [] OTHER ->
              /\ SetSock(refresh([Sock EXCEPT !.sock = "open"]))
              /\ written' = Append(written, query \o <<"\r\n">>)
              /\ NoResolve
              /\ UNCHANGED tls
    /\ UNCHANGED <<callVars, routeVars, pairVars, httpVars, rblVars, banner, data, heard, io, faults>>

(* A 'data' handler that leaves the socket open *)
AfterBannerDataKeepOpen(s) == refresh(s)

(* grabBanner's 'data' handler ends with socket.destroy() *)
AfterBannerData(s) == destroy(s)

(* 'data' *)
SockData ==
    /\ sock = "open"
    /\ IF probe = "grabBanner"
       THEN \E c \in Chunks :
              /\ banner' = banner \o c
              /\ heard' = Append(heard, c)
              /\ SetSock(AfterBannerData(Sock))
              /\ UNCHANGED data
       ELSE \E c \in Replies :
              /\ Len(heard) < MaxData \/ Len(data) >= RawLimit
              /\ IF Len(heard) < MaxData
                 THEN /\ data' = data \o c
                      /\ heard' = Append(heard, c)
                 ELSE UNCHANGED <<data, heard>>
              /\ SetSock(refresh(Sock))
              /\ UNCHANGED banner
    /\ NoResolve
    /\ UNCHANGED <<callVars, routeVars, pairVars, tls, httpVars, rblVars, written, io, faults>>

(* The text handed on without a cut *)
PrefixUncut(s, n) == s

(* substring(0, 1500) *)
Prefix(s, n) == SubSeq(s, 1, Min(Len(s), n))

(* 'end': the peer closed its side *)
SockEnd ==
    /\ sock \in {"open", "halfclosed"}
    /\ IF sock = "halfclosed"
       THEN /\ SetSock(destroy(Sock))
            /\ NoResolve
       ELSE /\ SetSock([Sock EXCEPT !.sock = "peerended"])
            /\ IF probe = "simpleWhois"
               THEN Resolve("end", success([raw |-> Prefix(data, RawLimit)], Absent))
               ELSE NoResolve
    /\ UNCHANGED <<callVars, routeVars, pairVars, tls, httpVars, rblVars, bufVars, io, faults>>

(* After 'end' the runtime ends the writable side and destroys the socket *)
SockAutoClose ==
    /\ sock = "peerended"
    /\ SetSock(destroy(Sock))
    /\ NoResolve
    /\ UNCHANGED <<callVars, routeVars, pairVars, tls, httpVars, rblVars, bufVars, io, faults>>

(* 'error': the runtime has destroyed the socket when the handler runs *)
SockError ==
    /\ sock \in {"connecting", "open", "halfclosed", "peerended"}
    /\ \E e \in SocketFaults :
         IF probe = "checkPort"
         THEN Resolve("error", error(StringVal(ClosedMessage(e))))
         ELSE Resolve("error", error(e))
    /\ SetSock(IF probe = "checkPort" THEN destroy(destroy(Sock))
               ELSE destroy(Sock))
    /\ UNCHANGED <<callVars, routeVars, pairVars, tls, httpVars, rblVars, bufVars, io, faults>>

TimeoutMessage(name) ==
    CASE name = "checkPort" -> "Connection Timed Out"
      [] name = "grabBanner" -> "Timeout waiting for banner"
      [] OTHER -> "Whois timeout"

(* The timeout period passes without activity on the socket *)
IdleElapses ==
    /\ timer
    /\ ~due
    /\ sock \in {"unconnected", "connecting", "open", "peerended"}
    /\ SetSock([Sock EXCEPT !.due = TRUE])
    /\ NoResolve
    /\ UNCHANGED <<callVars, routeVars, pairVars, tls, httpVars, rblVars, bufVars, io, faults>>

(* 'timeout': the idle timer set with setTimeout fired *)
SockTimeout ==
    /\ timer
    /\ due
    /\ sock \in {"unconnected", "connecting", "open", "peerended"}
    /\ IF sock = "unconnected"
       THEN /\ SetSock([Sock EXCEPT !.timer = FALSE])
            /\ NoResolve
       ELSE /\ SetSock(destroy(Sock))
            /\ Resolve("timeout", error(StringVal(TimeoutMessage(probe))))
    /\ UNCHANGED <<callVars, routeVars, pairVars, tls, httpVars, rblVars, bufVars, io, faults>>

BannerResult(b) ==
    success([banner |-> IF Trim(b) # <<>> THEN Trim(b)
                        ELSE <<"Connected (No Banner)">>], Absent)

(* 'close' *)
SockClose ==
    /\ closePending
    /\ closePending' = FALSE
    /\ IF probe = "grabBanner"
       THEN Resolve("close", BannerResult(banner))
       ELSE NoResolve
    /\ UNCHANGED <<callVars, routeVars, pairVars, tls, httpVars, rblVars, bufVars, io, faults,
                   sock, timer, closeCount, due>>

-----------------------------------------------------------------------------

Next ==
    \/ Call
    \/ GET
    \/ Respond
    \/ Finish
    \/ ResolverResolves
    \/ ResolverRejects
    \/ FetchResolves
    \/ FetchRejects
    \/ LookupResolves
    \/ LookupRejects
    \/ SockConnect
    \/ SockData
    \/ SockEnd
    \/ SockAutoClose
    \/ SockError
    \/ IdleElapses
    \/ SockTimeout
    \/ SockClose

Spec == Init /\ [][Next]_vars

-----------------------------------------------------------------------------
(* Two invocations in one process.  The runtime runs one callback at a    *)
(* time; between callbacks it may turn to the other invocation.  Every    *)
(* argument, local and closure variable of an invocation is its own.      *)

(* The locals of an invocation that has not been called yet *)
IdleLocals ==
    [pc |-> "idle", apiType |-> "my-ip", query |-> <<>>,
     options |-> [recordType |-> <<>>, prefix |-> <<>>, port |-> NoNum],
     probe |-> "none", ret |-> Pending, prom |-> Pending,
     resolveCalls |-> <<>>, sock |-> "none", timer |-> FALSE,
     closeCount |-> 0, closePending |-> FALSE, host |-> <<>>,
     port |-> NoNum, banner |-> <<>>, data |-> <<>>, written |-> <<>>,
     io |-> <<>>, faults |-> <<>>, lookups |-> <<>>, entries |-> <<>>,
     url |-> <<>>, response |-> NoResponse, tls |-> NoHandshake,
     stage |-> 0, heard |-> <<>>, due |-> FALSE]

(* The locals of the invocation that is running *)
Locals ==
    [pc |-> pc, apiType |-> apiType, query |-> query, options |-> options,
     probe |-> probe, ret |-> ret, prom |-> prom,
     resolveCalls |-> resolveCalls, sock |-> sock, timer |-> timer,
     closeCount |-> closeCount, closePending |-> closePending,
     host |-> host, port |-> port, banner |-> banner, data |-> data,
     written |-> written, io |-> io, faults |-> faults,
     lookups |-> lookups, entries |-> entries, url |-> url,
     response |-> response, tls |-> tls, stage |-> stage, heard |-> heard,
     due |-> due]

(* A banner kept in one place for all invocations *)
StaticBanner(own, live) == live

(* let banner = '' is a local of the promise executor: each invocation    *)
(* finds its own value again                                              *)
LocalBanner(own, live) == own

(* The event loop turns to the other invocation *)
Switch ==
    /\ parked # NoCall
    /\ parked' = Locals
    /\ self' = 3 - self
    /\ pc' = parked.pc
    /\ apiType' = parked.apiType
    /\ query' = parked.query
    /\ options' = parked.options
    /\ probe' = parked.probe
    /\ ret' = parked.ret
    /\ prom' = parked.prom
    /\ resolveCalls' = parked.resolveCalls
    /\ sock' = parked.sock
    /\ timer' = parked.timer
    /\ closeCount' = parked.closeCount
    /\ closePending' = parked.closePending
    /\ host' = parked.host
    /\ port' = parked.port
    /\ data' = parked.data
    /\ written' = parked.written
    /\ io' = parked.io
    /\ faults' = parked.faults
    /\ lookups' = parked.lookups
    /\ entries' = parked.entries
    /\ url' = parked.url
    /\ response' = parked.response
    /\ tls' = parked.tls
    /\ stage' = parked.stage
    /\ heard' = parked.heard
    /\ due' = parked.due
    /\ banner' = LocalBanner(parked.banner, banner)
    /\ UNCHANGED routeVars

PairKinds == {"banner", "tcp"}
PairTargets == { <<"a">>, <<"a", ":", "8", "0">> }

(* Each of the two invocations is called once *)
CallPair ==
    /\ parked # NoCall
    /\ pc = "idle"
    /\ \E k \in PairKinds, q \in PairTargets :
         runTool(k, q, [recordType |-> <<>>, prefix |-> <<>>, port |-> NoNum])
    /\ UNCHANGED <<routeVars, pairVars>>

InitPair ==
    /\ request = NoRequest
    /\ http = NoReply
    /\ parked = IdleLocals
    /\ self = 1
    /\ pc = IdleLocals.pc
    /\ apiType = IdleLocals.apiType
    /\ query = IdleLocals.query
    /\ options = IdleLocals.options
    /\ probe = IdleLocals.probe
    /\ ret = IdleLocals.ret
    /\ prom = IdleLocals.prom
    /\ resolveCalls = IdleLocals.resolveCalls
    /\ sock = IdleLocals.sock
    /\ timer = IdleLocals.timer
    /\ closeCount = IdleLocals.closeCount
    /\ closePending = IdleLocals.closePending
    /\ host = IdleLocals.host
    /\ port = IdleLocals.port
    /\ banner = IdleLocals.banner
    /\ data = IdleLocals.data
    /\ written = IdleLocals.written
    /\ io = IdleLocals.io
    /\ faults = IdleLocals.faults
    /\ lookups = IdleLocals.lookups
    /\ entries = IdleLocals.entries
    /\ url = IdleLocals.url
    /\ response = IdleLocals.response
    /\ tls = IdleLocals.tls
    /\ stage = IdleLocals.stage
    /\ heard = IdleLocals.heard
    /\ due = IdleLocals.due

NextPair ==
    \/ CallPair
    \/ Switch
    \/ SockConnect
    \/ SockData
    \/ SockError
    \/ IdleElapses
    \/ SockTimeout
    \/ SockClose

SpecPair == InitPair /\ [][NextPair]_vars

(* The runtime delivers a due timer and a due 'close', and finishes closing *)
FairSpec ==
    /\ Spec
    /\ WF_vars(IdleElapses)
    /\ WF_vars(SockTimeout)
    /\ WF_vars(SockClose)
    /\ WF_vars(SockAutoClose)

-----------------------------------------------------------------------------
(* Properties *)

Done == pc \in {"done", "replied"}

FaultMessage(f) == IF f.isError THEN f.message ELSE f.text

(* C1, as stated: runTool never rejects, and whenever a fault was raised   *)
(* inside the probe (a throw, a rejected resolver promise, a rejected      *)
(* fetch) the Result has status "error" and the fault's message.           *)
C1_EveryFaultBecomesError ==
    /\ ret.state # "rejected"
    /\ (Done /\ faults # <<>>) =>
         /\ ret.state = "fulfilled"
         /\ ret.value.status = "error"
         /\ ret.value.message = FaultMessage(faults[1].fault)

(* C1, amended: runTool never rejects, and every fault raised inside a     *)
(* probe other than a failed zone lookup of checkBlacklist (which that     *)
(* probe turns into a CLEAN entry) gives status "error" with the fault's   *)
(* message.                                                                *)
C1_EscapingFaultBecomesError ==
    /\ ret.state # "rejected"
    /\ (Done /\ faults # <<>> /\ probe # "checkBlacklist") =>
         /\ ret.state = "fulfilled"
         /\ ret.value.status = "error"
         /\ ret.value.message = FaultMessage(faults[1].fault)

C1_Witness ==
    /\ Done
    /\ probe = "checkHeaders"
    /\ faults # <<>>
    /\ faults[1].src = "fetch"
    /\ ret.state = "fulfilled"
    /\ ret.value.message = "fetch failed"

(* C2: in a socket probe the caller's Result is the value of the first     *)
(* call of resolve, however many handlers call resolve after it.           *)
C2_FirstResolveWins ==
    (probe \in ConnProbes /\ resolveCalls # <<>>) =>
        /\ ret.state = "fulfilled"
        /\ ret.value = resolveCalls[1].value
        /\ prom = Fulfilled(resolveCalls[1].value)

C2_Witness ==
    /\ probe = "grabBanner"
    /\ Len(resolveCalls) = 2
    /\ resolveCalls[1].event = "timeout"
    /\ resolveCalls[2].event = "close"
    /\ resolveCalls[2].value # resolveCalls[1].value
    /\ ret.value = resolveCalls[1].value

(* C3, as stated: a socket probe that is waiting for its connection gets   *)
(* a Result, or a connect or an error, in the end.                         *)
C3_DeadlineEndsEveryProbe ==
    (pc = "await" /\ probe \in ConnProbes /\ sock = "connecting")
        ~> (pc = "done" \/ sock # "connecting")

(* C4, as stated: when a socket probe has returned its Result, the socket  *)
(* it opened is closed, and was closed once.                               *)
C4_SocketClosedOnReturn ==
    (Done /\ probe \in ConnProbes /\ io # <<>>) =>
        (sock = "closed" /\ closeCount = 1)

(* C5: a kind without a case in the switch, with a non-empty target, gives *)
(* status "error" at once and no resolver, socket or fetch is used.        *)
C5_UnknownKindNoIO ==
    (pc # "idle" /\ query # <<>>
       /\ apiType \in {"whois-asn", "mac-oui", "crypto-hmac", "smtp-test",
                       "health", "bogus"}) =>
        /\ Done
        /\ ret.state = "fulfilled"
        /\ ret.value.status = "error"
        /\ io = <<>>
        /\ sock = "none"

C5_Witness ==
    /\ Done
    /\ apiType = "smtp-test"
    /\ query = <<"a">>
    /\ ret.value.status = "error"
    /\ io = <<>>

(* C6: an empty target with any kind but my-ip and crypto-uuid gives       *)
(* status "error" at once and no resolver, socket or fetch is used.        *)
C6_EmptyTargetNoIO ==
    (pc # "idle" /\ query = <<>> /\ apiType \notin {"my-ip", "crypto-uuid"}) =>
        /\ Done
        /\ ret.state = "fulfilled"
        /\ ret.value.status = "error"
        /\ io = <<>>
        /\ sock = "none"
        /\ ~timer

C6_Witness ==
    /\ Done
    /\ apiType = "tls-check"
    /\ query = <<>>
    /\ ret.value.status = "error"
    /\ io = <<>>

(* C7, as stated: a Result that comes from the probe's timer has status    *)
(* "timeout".                                                              *)
C7_TimerGivesTimeoutStatus ==
    (Done /\ probe \in {"checkPort", "grabBanner", "simpleWhois"}
       /\ resolveCalls # <<>> /\ resolveCalls[1].event = "timeout") =>
        ret.value.status = "timeout"

(* C8: checkBlacklist returns only when no zone lookup is pending, and its *)
(* list has one entry per zone, in zone order, LISTED for a lookup that    *)
(* resolved and CLEAN for one that failed.                                 *)
C8_BlacklistJoin ==
    probe = "checkBlacklist" =>
        /\ (\E i \in 1..Len(lookups) : lookups[i] = "pending")
              => ret.state = "pending"
        /\ Done =>
             /\ ret.value.status = "success"
             /\ Len(ret.value.data.items) = 2
             /\ ret.value.data.items[1].rbl = "zen.spamhaus.org"
             /\ ret.value.data.items[2].rbl = "b.barracudacentral.org"
             /\ \A i \in 1..2 :
                  ret.value.data.items[i].status =
                     IF lookups[i] = "resolved" THEN "LISTED" ELSE "CLEAN"

C8_Witness ==
    /\ Done
    /\ probe = "checkBlacklist"
    /\ lookups = <<"failed", "resolved">>
    /\ ret.value.data.items[1].status = "CLEAN"
    /\ ret.value.data.items[2].status = "LISTED"

MissingCount(hs) == Cardinality({i \in 1..Len(required) : required[i] \notin hs})

GradedCall ==
    /\ Done
    /\ probe = "gradeSecurityHeaders"
    /\ response # NoResponse

(* C9, as stated: no header missing gives A and 100, one missing gives B   *)
(* and 80, three or more missing give F and at most 40.                    *)
C9_OneMissingIsB ==
    GradedCall =>
        LET m == MissingCount(response.headers)
            g == Graded(response.headers)
        IN  /\ m = 0 => (ret.value.grade = "A" /\ g.score = 100)
            /\ m = 1 => (ret.value.grade = "B" /\ g.score = 80)
            /\ m >= 3 => (ret.value.grade = "F" /\ g.score <= 40)

(* C9, amended: no header missing gives A and 100, one missing gives A and *)
(* 80, three or more missing give F and at most 40.                        *)
C9_OneMissingIsA ==
    GradedCall =>
        LET m == MissingCount(response.headers)
            g == Graded(response.headers)
        IN  /\ m = 0 => (ret.value.grade = "A" /\ g.score = 100)
            /\ m = 1 => (ret.value.grade = "A" /\ g.score = 80)
            /\ m >= 3 => (ret.value.grade = "F" /\ g.score <= 40)

C9_Witness ==
    /\ GradedCall
    /\ MissingCount(response.headers) = 1
    /\ ret.value.grade = "A"

(* C10: for every set of headers present, the score is 100 - 20 x missing, *)
(* the grade field is A from 80, B from 60 and F below, and the details    *)
(* list the four headers in order, PASS when present and FAIL when not.    *)
C10_ScoreGradeDetails ==
    GradedCall =>
        LET hs == response.headers
            expected == 100 - 20 * MissingCount(hs)
        IN  /\ Graded(hs).score = expected
            /\ ret.value.status = "success"
            /\ ret.value.grade =
                 (IF expected >= 80 THEN "A"
                  ELSE IF expected >= 60 THEN "B" ELSE "F")
            /\ Len(ret.value.data.details) = 4
            /\ \A i \in 1..4 :
                 ret.value.data.details[i] =
                    [header |-> required[i],
                     status |-> IF required[i] \in hs THEN "PASS" ELSE "FAIL"]

C10_Witness ==
    /\ GradedCall
    /\ MissingCount(response.headers) = 2
    /\ "x-frame-options" \in response.headers
    /\ ret.value.grade = "B"
    /\ ret.value.data.details[3].status = "PASS"
    /\ ret.value.data.details[4].status = "FAIL"

(* C11, as stated: when grabBanner's timer fires on an established         *)
(* connection that has sent nothing, the Result is a success whose banner  *)
(* is the "no banner" sentinel.                                            *)
C11_SilentPeerIsSuccess ==
    (Done /\ probe = "grabBanner" /\ resolveCalls # <<>>
       /\ resolveCalls[1].event = "timeout" /\ resolveCalls[1].at = "open"
       /\ banner = <<>>) =>
        /\ ret.value.status = "success"
        /\ ret.value.data = [banner |-> <<"Connected (No Banner)">>]

Handshaken ==
    /\ Done
    /\ probe = "checkSSL"
    /\ tls # NoHandshake

(* C12, as stated: a peer whose chain does not validate (an expired        *)
(* certificate included) gives status "success" with valid = false.        *)
C12_UntrustedPeerIsSuccess ==
    (Handshaken /\ (~tls.cert.trusted \/ tls.cert.valid_to < tls.now)) =>
        /\ ret.value.status = "success"
        /\ ret.value.data.valid = FALSE

(* C13, as stated: days_remaining is the floor of (valid_to - now) over    *)
(* one day, and a certificate whose valid_to is in the past gives a Result *)
(* with days_remaining < 0.                                                *)
C13_ExpiredGivesNegativeDays ==
    Handshaken =>
        /\ ret.value.status = "success" =>
             /\ ret.value.data.days_remaining * 86400000
                  <= tls.cert.valid_to - tls.now
             /\ tls.cert.valid_to - tls.now
                  < (ret.value.data.days_remaining + 1) * 86400000
        /\ tls.cert.valid_to < tls.now =>
             /\ ret.value.status = "success"
             /\ ret.value.data.days_remaining < 0

(* C14: every Result runTool returns has a timestamp and exactly one of    *)
(* data and message, data with status "success" and message with status   *)
(* "error"; a grade appears only on a Result of the headers-grade kind.    *)
C14_EnvelopeShape ==
    ret.state = "fulfilled" =>
        LET r == ret.value
            hasData == r.data # [kind |-> "absent"]
            hasMessage == r.message # "<absent>"
        IN  /\ r.timestamp # "<absent>"
            /\ hasData # hasMessage
            /\ r.status = "success" => (hasData /\ ~hasMessage)
            /\ r.status = "error" => (hasMessage /\ ~hasData)
            /\ r.grade # "<absent>" => apiType = "headers-grade"

C14_Witness ==
    /\ Done
    /\ apiType = "headers-grade"
    /\ ret.value.status = "success"
    /\ ret.value.grade = "F"
    /\ ret.value.message = "<absent>"
    /\ ret.value.data # [kind |-> "absent"]

EngineCalled == request # NoRequest /\ ret.state # "pending"

(* C15, as stated: every call of the route is answered 200 with a Result   *)
(* that embeds the real status.                                            *)
C15_AlwaysOk ==
    http # NoReply =>
        /\ http.code = 200
        /\ EngineCalled => http.body = ret.value

(* C15, amended: a request with a configured slug and, unless the tool's   *)
(* inputType is "none", a query, and every what-is-my-ip request, is       *)
(* answered 200 with the Result of the engine; a missing slug or query is  *)
(* answered 400 and an unknown slug 404; nothing is answered 5xx.          *)
C15_OkOnceAccepted ==
    http # NoReply =>
        LET known == \E t \in Tools : t.slug = request.slug
            needsNoQuery ==
                \E t \in Tools : t.slug = request.slug /\ t.inputType = "none"
            accepted ==
                \/ request.slug = "what-is-my-ip"
                \/ known /\ (request.q # <<>> \/ needsNoQuery)
        IN  /\ http.code < 500
            /\ accepted => http.code = 200
            /\ ~accepted => http.code =
                 (IF request.slug # "" /\ ~known THEN 404 ELSE 400)
            /\ EngineCalled =>
                 /\ accepted
                 /\ ret.state = "fulfilled"
                 /\ http.body = ret.value

C15_Witness ==
    /\ http # NoReply
    /\ request.slug = "port-check"
    /\ http.code = 200
    /\ ret.state = "fulfilled"
    /\ http.body.status = "error"
    /\ resolveCalls # <<>>
    /\ resolveCalls[1].event = "timeout"

(* The Result an invocation gives when it runs alone: the one its first    *)
(* settling event gives, computed from its own arguments and from what its *)
(* own socket delivered.                                                   *)
AloneResult(l) ==
    LET first == l.resolveCalls[1] IN
    CASE l.probe = "grabBanner" /\ first.event = "close" ->
              BannerResult(Concat(l.heard))
      [] l.probe = "grabBanner" /\ first.event = "timeout" ->
              error(StringVal("Timeout waiting for banner"))
      [] l.probe = "checkPort" /\ first.event = "timeout" ->
              error(StringVal("Connection Timed Out"))
      [] l.probe = "checkPort" /\ first.event = "connect" ->
              success([status |-> "Open",
                       port |-> PortOf(l.query, l.options, 80),
                       host |-> HostOf(l.query)], Absent)
      [] OTHER -> first.value

AsAlone(l) ==
    l.pc = "done" =>
        /\ l.ret.state = "fulfilled"
        /\ l.resolveCalls # <<>>
        /\ l.ret.value = AloneResult(l)

(* C16: of two invocations whose socket and timer events interleave in any *)
(* order, each returns the Result it would return alone.                   *)
C16_EachAsAlone ==
    parked # NoCall => AsAlone(Locals) /\ AsAlone(parked)

C16_Witness ==
    /\ parked # NoCall
    /\ pc = "done"
    /\ probe = "grabBanner"
    /\ heard = << <<" ">> >>
    /\ ret.value.data = [banner |-> <<"Connected (No Banner)">>]
    /\ parked.probe = "grabBanner"
    /\ parked.heard = << <<"S", " ">> >>
    /\ parked.pc = "await"
    /\ parked.closePending

(* A text has a URL scheme when "://" occurs in it *)
HasScheme(u) ==
    \E i \in 1..Len(u) :
        /\ i + 2 <= Len(u)
        /\ u[i] = ":" /\ u[i + 1] = "/" /\ u[i + 2] = "/"

(* C17, as stated: the three HTTP probes request "https://" followed by    *)
(* the input when the input has no scheme, also when it begins with the    *)
(* letters "http", and request the input itself when it has a scheme.      *)
C17_SchemelessGetsHttps ==
    (pc # "idle" /\ probe \in HttpProbes) =>
        /\ url = (IF HasScheme(query) THEN query ELSE <<"https://">> \o query)
        /\ io[1] = [op |-> "fetch", arg |-> url]

(* The kinds the switch has no case for, each with the message naming it *)
UnknownKindMessage ==
    [k \in {"whois-asn", "mac-oui", "crypto-hmac", "smtp-test", "health",
            "bogus"} |->
        CASE k = "whois-asn" -> "Tool implementation for whois-asn is missing."
          [] k = "mac-oui" -> "Tool implementation for mac-oui is missing."
          [] k = "crypto-hmac" ->
                 "Tool implementation for crypto-hmac is missing."
          [] k = "smtp-test" -> "Tool implementation for smtp-test is missing."
          [] k = "health" -> "Tool implementation for health is missing."
          [] OTHER -> "Tool implementation for bogus is missing."]

UnknownKindCall == pc # "idle" /\ apiType \in DOMAIN UnknownKindMessage

(* C18, as stated: for every unrecognized kind and every target, empty or  *)
(* not, the error Result has a message that identifies the kind.           *)
C18_MessageNamesKind ==
    UnknownKindCall =>
        /\ Done
        /\ ret.value.status = "error"
        /\ ret.value.message = UnknownKindMessage[apiType]

(* C18, amended: for every unrecognized kind and every non-empty target    *)
(* the error Result has the message naming the kind; with an empty target  *)
(* the message is "Input query is required", whatever the kind.            *)
C18_MessageNamesKindOfNonEmpty ==
    UnknownKindCall =>
        /\ Done
        /\ ret.value.status = "error"
        /\ ret.value.message =
             (IF query = <<>> THEN "Input query is required"
              ELSE UnknownKindMessage[apiType])

C18_Witness ==
    /\ Done
    /\ apiType = "bogus"
    /\ query = <<"a", ":", "8", "0">>
    /\ ret.value.message = "Tool implementation for bogus is missing."

FirstColon(q) == CHOOSE i \in 1..Len(q) : q[i] = ":" /\ \A j \in 1..(i - 1) : q[j] # ":"
AfterFirstColon(q) == SubSeq(q, FirstColon(q) + 1, Len(q))
HasColon(q) == \E i \in 1..Len(q) : q[i] = ":"

(* The port part of a target is malformed when the text after the first   *)
(* ':' is empty or has a character that is not a digit.                    *)
MalformedPort(q) ==
    /\ HasColon(q)
    /\ \/ AfterFirstColon(q) = <<>>
       \/ \E j \in 1..Len(AfterFirstColon(q)) : ~IsDigit(AfterFirstColon(q)[j])

ConnKinds == {"ping", "tcp", "banner"}

(* C19, as stated: for the ping/tcp and banner kinds a target with a       *)
(* malformed port part gives a Result with status "error" at once, and no  *)
(* connection is attempted.                                                *)
C19_MalformedPortIsError ==
    (pc # "idle" /\ apiType \in ConnKinds /\ MalformedPort(query)) =>
        /\ Done
        /\ ret.state = "fulfilled"
        /\ ret.value.status = "error"
        /\ io = <<>>
        /\ sock \notin {"connecting", "open"}

(* The decimal value of a text of digits *)
RECURSIVE DecimalValue(_)
DecimalValue(d) ==
    IF d = <<>> THEN 0
    ELSE 10 * DecimalValue(SubSeq(d, 1, Len(d) - 1)) + DigitVal(d[Len(d)])

(* The integer a text begins with, if it begins with a digit *)
LeadingInteger(t) ==
    LET n == CHOOSE k \in 0..Len(t) :
                 /\ \A j \in 1..k : IsDigit(t[j])
                 /\ k < Len(t) => ~IsDigit(t[k + 1])
    IN  IF n = 0 THEN NoNum ELSE <<DecimalValue(SubSeq(t, 1, n))>>

ConnCall ==
    /\ pc # "idle"
    /\ apiType \in ConnKinds
    /\ probe \in {"checkPort", "grabBanner"}

(* C20, as stated: for the ping/tcp and banner kinds the probe gets as     *)
(* host the target text before the first ':' (the whole target when there  *)
(* is none) and as port options.port when supplied, otherwise the integer  *)
(* after the first ':' when the target has one, otherwise 80 for ping/tcp  *)
(* and 22 for banner.                                                      *)
C20_HostAndPort ==
    ConnCall =>
        /\ host = (IF HasColon(query)
                   THEN SubSeq(query, 1, FirstColon(query) - 1) ELSE query)
        /\ port = (IF options.port # NoNum THEN options.port
                   ELSE IF HasColon(query)
                        THEN LeadingInteger(AfterFirstColon(query))
                   ELSE IF apiType = "banner" THEN <<22>> ELSE <<80>>)

(* C21, as stated: simpleWhois returns a Result even when the peer keeps   *)
(* sending data and never closes: the deadline is not extended by data.    *)
C21_WhoisAlwaysReturns ==
    (pc = "await" /\ probe = "simpleWhois") ~> (pc # "await")

(* A text without the blanks at its two ends *)
Stripped(c) ==
    LET idx == {i \in 1..Len(c) : c[i] # " "} IN
    IF idx = {} THEN <<>>
    ELSE SubSeq(c, CHOOSE i \in idx : \A j \in idx : i <= j,
                   CHOOSE i \in idx : \A j \in idx : j <= i)

BannerHeard == pc # "idle" /\ probe = "grabBanner" /\ heard # <<>>

(* C22, as stated: when data arrives grabBanner takes the first data event *)
(* only, closes the socket, and returns a success whose banner is that     *)
(* first chunk.                                                            *)
C22_BannerIsFirstChunk ==
    BannerHeard =>
        /\ Len(heard) = 1
        /\ banner = heard[1]
        /\ sock = "closed"
        /\ Done => /\ ret.value.status = "success"
                   /\ ret.value.data = [banner |-> heard[1]]

(* C22, amended: the banner returned is the first chunk without the white  *)
(* space at its ends, or "Connected (No Banner)" when nothing is left.     *)
C22_BannerIsFirstChunkTrimmed ==
    BannerHeard =>
        /\ Len(heard) = 1
        /\ banner = heard[1]
        /\ sock = "closed"
        /\ Done => /\ ret.value.status = "success"
                   /\ ret.value.data =
                        [banner |-> IF Stripped(heard[1]) = <<>>
                                    THEN <<"Connected (No Banner)">>
                                    ELSE Stripped(heard[1])]

C22_Witness ==
    /\ BannerHeard
    /\ Done
    /\ heard = << <<"S", " ">> >>
    /\ ret.value.data = [banner |-> <<"S">>]
    /\ port = <<80>>
    /\ written # <<>>

WhoisEnded ==
    /\ Done
    /\ probe = "simpleWhois"
    /\ resolveCalls # <<>>
    /\ resolveCalls[1].event = "end"

(* C23: when the peer closes, simpleWhois returns a success whose raw text *)
(* is the first 1500 characters, or all of them when there are fewer, of   *)
(* the chunks received put together in arrival order.                      *)
C23_RawIsBoundedPrefix ==
    WhoisEnded =>
        LET all == Concat(heard)
            raw == ret.value.data.raw
        IN  /\ ret.value.status = "success"
            /\ Len(raw) <= 1500
            /\ Len(raw) = (IF Len(all) < 1500 THEN Len(all) ELSE 1500)
            /\ \A i \in 1..Len(raw) : raw[i] = all[i]

C23_Witness ==
    /\ WhoisEnded
    /\ heard = <<Long, <<"S", " ">> >>
    /\ Len(ret.value.data.raw) = 1500
    /\ ret.value.data.raw[1500] = "S"

(* Record types with their two spellings and the resolver call of each *)
TypeNames ==
    { [up |-> <<"A">>, low |-> <<"a">>, call |-> "resolve4"],
      [up |-> <<"A", "A", "A", "A">>, low |-> <<"a", "a", "a", "a">>,
       call |-> "resolve6"],
      [up |-> <<"M", "X">>, low |-> <<"m", "x">>, call |-> "resolveMx"],
      [up |-> <<"T", "X", "T">>, low |-> <<"t", "x", "t">>,
       call |-> "resolveTxt"],
      [up |-> <<"N", "S">>, low |-> <<"n", "s">>, call |-> "resolveNs"],
      [up |-> <<"S", "O", "A">>, low |-> <<"s", "o", "a">>,
       call |-> "resolveSoa"],
      [up |-> <<"C", "N", "A", "M", "E">>, low |-> <<"c", "n", "a", "m", "e">>,
       call |-> "resolveCname"],
      [up |-> <<"S", "R", "V">>, low |-> <<"s", "r", "v">>,
       call |-> "resolveSrv"],
      [up |-> <<"C", "A", "A">>, low |-> <<"c", "a", "a">>,
       call |-> "resolveCaa"] }

PtrName == [up |-> <<"P", "T", "R">>, low |-> <<"p", "t", "r">>, call |-> "reverse"]

(* The type is the name, whatever the case of each letter *)
Spells(t, n) ==
    /\ Len(t) = Len(n.up)
    /\ \A i \in 1..Len(t) : t[i] = n.up[i] \/ t[i] = n.low[i]

CallFor(t, names) ==
    IF \E n \in names : Spells(t, n)
    THEN (CHOOSE n \in names : Spells(t, n)).call
    ELSE "resolve4"

DnsCall == pc # "idle" /\ apiType = "dns" /\ probe = "resolveDNS"

(* C24, as stated: resolveDNS maps A, AAAA, MX, TXT, NS, SOA, CNAME, SRV   *)
(* and CAA, in any case, to their resolver calls, and every other or       *)
(* absent type to an A lookup.                                             *)
C24_OtherTypesAreA ==
    DnsCall =>
        io[1] = [op |-> CallFor(options.recordType, TypeNames), arg |-> query]

(* C24, amended: PTR, in any case, is mapped to a reverse lookup; every    *)
(* other or absent type is an A lookup.                                    *)
C24_TypesAndPtr ==
    DnsCall =>
        io[1] = [op |-> CallFor(options.recordType, TypeNames \cup {PtrName}),
                 arg |-> query]

C24_Witness ==
    /\ DnsCall
    /\ options.recordType = <<"c", "n", "a", "m", "e">>
    /\ io = <<[op |-> "resolveCname", arg |-> <<"a">>]>>
    /\ Done
    /\ ret.value.status = "success"

TxtCall == pc # "idle" /\ apiType = "dns-txt" /\ probe # "none"

(* C25: for the dns-txt kind runTool issues one TXT lookup, of the prefix, *)
(* a dot and the target when options.prefix is set and of the target       *)
(* itself otherwise, whatever options.recordType is.                       *)
C25_TxtOfPrefixedTarget ==
    TxtCall =>
        LET name == io[1].arg
            n == Len(options.prefix)
        IN  /\ Len(io) = 1
            /\ io[1].op = "resolveTxt"
            /\ IF n = 0 THEN name = query
               ELSE /\ Len(name) = n + 1 + Len(query)
                    /\ \A i \in 1..n : name[i] = options.prefix[i]
                    /\ name[n + 1] = "."
                    /\ \A i \in 1..Len(query) : name[n + 1 + i] = query[i]

C25_Witness ==
    /\ TxtCall
    /\ options.recordType = <<"m", "x">>
    /\ io = <<[op |-> "resolveTxt", arg |-> <<"_", "d", ".", "a">>]>>
    /\ Done

BlacklistCall == pc # "idle" /\ apiType = "blacklist" /\ query # <<>>

(* C26: checkBlacklist never returns status "error": for every non-empty   *)
(* input, an IPv4 address or not, and every resolver failure, the Result   *)
(* is a success that reports each zone whose lookup failed as CLEAN.       *)
C26_BlacklistNeverErrors ==
    BlacklistCall =>
        /\ probe = "checkBlacklist"
        /\ ret.state # "rejected"
        /\ Done =>
             /\ ret.value.status = "success"
             /\ ret.value.message = Absent
             /\ \A i \in 1..Len(rbls) :
                  lookups[i] = "failed" =>
                      ret.value.data.items[i] =
                          [rbl |-> rbls[i], status |-> "CLEAN"]

C26_Witness ==
    /\ BlacklistCall
    /\ Done
    /\ query = <<"a">>
    /\ lookups = <<"failed", "failed">>
    /\ Len(faults) = 2
    /\ faults[1].fault.message = "queryA ESERVFAIL"
    /\ faults[2].fault.message = "queryA ETIMEOUT"
    /\ ret.value.status = "success"

====
